---- MODULE Spec2Model ----
(***************************************************************************)
(* State-machine model of src/src/layouts/AuthenticatedLayout.tsx: the     *)
(* OrganizationMembersPage component (view state, handlers, the requests   *)
(* it has in flight) together with the mount effect of AuthenticatedLayout.*)
(* One action per event handler or response continuation.  A handler that  *)
(* awaits an API call is split at the await: the part before it issues     *)
(* the request, the part after it is the action that consumes the          *)
(* response.  The values a continuation reads from its closure (the        *)
(* render's page, perPage, orderBy, orderDir; the member argument) travel   *)
(* with the request record.                                                *)
(***************************************************************************)
EXTENDS Integers, Sequences, FiniteSets

(* ------------------------------ bounds --------------------------------- *)

\* Requests issued in one run, the mount's included: of the runs that sort,
\* page and remove; of the runs that edit rows; of the runs that invite.
MaxReq == 5
MaxReqRows == 4
MaxReqInvite == 4
\* Requests issued in a run that works with the URL dialog only.
MaxReqUrls == 5
\* Requests issued in a run that starts with a form open.
MaxReqForms == 3
\* Longest entries list of a getOrganizationMembers response.
MaxEntries == 2
\* Short URLs the organization owns.
MaxUrls == 1

(* ---------------------------- MemberRole ------------------------------- *)

ORGANIZATION_OWNER == "ORGANIZATION_OWNER"
ORGANIZATION_ADMIN == "ORGANIZATION_ADMIN"
ORGANIZATION_MANAGER == "ORGANIZATION_MANAGER"
ORGANIZATION_MEMBERS_MANAGER == "ORGANIZATION_MEMBERS_MANAGER"
ORGANIZATION_URLS_MANAGER == "ORGANIZATION_URLS_MANAGER"
ORGANIZATION_MEMBER == "ORGANIZATION_MEMBER"

\* The three roles the roles menu and the invite dialog offer as checkboxes.
ToggleRoles ==
    {ORGANIZATION_MEMBERS_MANAGER, ORGANIZATION_MANAGER, ORGANIZATION_URLS_MANAGER}

\* Permission sets of the acting user, one per class the predicates of the
\* page tell apart (admin or owner; else which manager roles are held).
PermissionSets ==
    {{ORGANIZATION_MEMBER},
     {ORGANIZATION_MEMBERS_MANAGER},
     {ORGANIZATION_URLS_MANAGER},
     {ORGANIZATION_MEMBERS_MANAGER, ORGANIZATION_URLS_MANAGER},
     {ORGANIZATION_ADMIN},
     {ORGANIZATION_OWNER}}

(* ------------------------- records of the API -------------------------- *)

\* getAccessToken()?.username
currentEmail == "me@org"

\* useState<... | null>(null): no anchor element, no row.
NULL_ID == 0
NoMember ==
    [id |-> NULL_ID, email |-> "", roles |-> {}, allowedAllUrls |-> FALSE,
     allowedUrls |-> {}]

\* ShortUrlDto, by id.
UrlIds == 1..MaxUrls

\* OrganizationMemberDto values the server may return.
MemberUniverse ==
    {[id |-> 1, email |-> "owner@org", roles |-> {ORGANIZATION_OWNER},
      allowedAllUrls |-> TRUE, allowedUrls |-> {}],
     [id |-> 2, email |-> currentEmail, roles |-> {ORGANIZATION_ADMIN},
      allowedAllUrls |-> TRUE, allowedUrls |-> {}],
     [id |-> 3, email |-> "ann@org", roles |-> {ORGANIZATION_MEMBER},
      allowedAllUrls |-> FALSE, allowedUrls |-> {1}],
     [id |-> 4, email |-> "bob@org",
      roles |-> {ORGANIZATION_URLS_MANAGER},
      allowedAllUrls |-> TRUE, allowedUrls |-> {}]}

\* Entries lists of a member-list response: any order, no member twice.
EntryLists ==
    UNION {{s \in [1..n -> MemberUniverse] :
              \A i, j \in 1..n : i # j => s[i].id # s[j].id} : n \in 0..MaxEntries}

\* res.total of a member-list response.
Totals == {12}

\* rowsPerPageOptions
RowsPerPageOptions == {5, 10, 25}

\* ServiceErrorType of a tagged error object; "" tags a success payload.
ENTITY_ALREADY_EXISTS == "ENTITY_ALREADY_EXISTS"
INTERNAL_ERROR == "INTERNAL_ERROR"
ErrorTypes == {ENTITY_ALREADY_EXISTS, INTERNAL_ERROR}
Outcomes == {""} \cup ErrorTypes

VARIABLES
    myRoles,        \* the cached permission set hasRole reads
    budget,         \* requests the run may issue, the mount's included
    currentOrg, organizations,   \* AuthenticatedLayout's state
    toast,          \* the notification the last step showed ("" when none)
    pending,        \* requests issued and not yet answered
    nextSeq,        \* issue number of the next request
    resError,       \* errorType of the response the last step received
                    \* ("" on success, NO_RESPONSE when the step received none)
    membersFrom,    \* the request whose response is displayed in members
    appliedMax,     \* highest issue number of a member-list response applied
    members, page, perPage, total, orderBy, orderDir, loading,
    rolesAnchor, rolesRow, newRoles,
    urlsOpen, urlsMember, allowedAll, selectedUrls, allUrls, urlsLoading,
    urlsInitFrom,   \* id of the member whose record allowedAll and selectedUrls
                    \* were last initialised from (NULL_ID: none yet)
    inviteOpen, inviteData, inviteErrors,
    removeAnchor, removeRow

envVars == <<myRoles, budget, currentOrg, organizations>>
listVars == <<members, total, membersFrom, appliedMax>>
depVars == <<page, perPage, orderBy, orderDir>>
rolesVars == <<rolesAnchor, rolesRow, newRoles>>
urlsVars == <<urlsOpen, urlsMember, allowedAll, selectedUrls, urlsLoading, urlsInitFrom>>
inviteVars == <<inviteOpen, inviteData, inviteErrors>>
removeVars == <<removeAnchor, removeRow>>

vars ==
    <<envVars, toast, pending, nextSeq, resError, listVars, depVars, loading,
      rolesVars, urlsVars, allUrls, inviteVars, removeVars>>

(* ------------------------------ helpers -------------------------------- *)

hasRole(role) == role \in myRoles

\* The dependency values a render's closures capture.
Deps == [p |-> page, q |-> perPage, sb |-> orderBy, dir |-> orderDir]

NoBody == <<>>

\* resError of a step that received no response.
NO_RESPONSE == "NO_RESPONSE"

\* A step of the user: no response received, no notification shown.
Quiet == toast' = "" /\ resError' = NO_RESPONSE

Request(seq, api, member, body, deps) ==
    [seq |-> seq, api |-> api, member |-> member, body |-> body, deps |-> deps]

NoRequest == Request(0, "", NoMember, NoBody, [p |-> 0, q |-> 0, sb |-> "", dir |-> ""])

\* Requests a pending request's continuation may still issue.
FollowUps(api) ==
    CASE api \in {"updateMemberRoles", "updateMemberUrls", "inviteMember"} -> 1
      [] api = "deleteMember" -> 2
      [] OTHER -> 0

Reserved ==
    Cardinality({r \in pending : FollowUps(r.api) = 1})
    + 2 * Cardinality({r \in pending : FollowUps(r.api) = 2})

\* Room under MaxReq for a request whose continuation issues up to n more.
CanIssue(api) == (nextSeq - 1) + Reserved + 1 + FollowUps(api) <= budget

isOwnerFlag(m) == IF ORGANIZATION_OWNER \in m.roles THEN 1 ELSE 0

\* The comparator handed to entries.sort.
ownerCompare(a, b) == isOwnerFlag(b) - isOwnerFlag(a)

\* x placed in the sorted list s before the first element that compares
\* greater: Array.prototype.sort is stable.
RECURSIVE InsertSorted(_, _)
InsertSorted(s, x) ==
    IF s = <<>> THEN <<x>>
    ELSE IF ownerCompare(Head(s), x) > 0 THEN <<x>> \o s
    ELSE <<Head(s)>> \o InsertSorted(Tail(s), x)

\* The entries as the service returned them.
SortEntriesAsReturned(s) == s

RECURSIVE SortEntries(_)
SortEntries(s) ==
    IF s = <<>> THEN <<>>
    ELSE InsertSorted(SortEntries(SubSeq(s, 1, Len(s) - 1)), s[Len(s)])

(* ---------------------------- fetchMembers ----------------------------- *)

\* fetchMembers up to its await, run from a closure that captured deps.
FetchRequest(seq, deps) == Request(seq, "getOrganizationMembers", NoMember, NoBody, deps)

\* A fetchMembers that drops the response of a request issued before the
\* one whose response it applied last.
RespGetMembersInOrder(r, entries, tot) ==
    /\ r \in pending /\ r.api = "getOrganizationMembers"
    /\ pending' = pending \ {r}
    /\ resError' = ""
    /\ IF r.seq < appliedMax
       THEN UNCHANGED <<members, total, membersFrom, appliedMax>>
       ELSE /\ members' = SortEntries(entries)
            /\ total' = tot
            /\ membersFrom' = r
            /\ appliedMax' = r.seq
    /\ loading' = FALSE
    /\ toast' = ""
    /\ UNCHANGED <<envVars, nextSeq, depVars, rolesVars, urlsVars, allUrls,
                   inviteVars, removeVars>>

\* fetchMembers after its await on a success payload, lines 277-284, 288.
RespGetMembers(r, entries, tot) ==
    /\ r \in pending /\ r.api = "getOrganizationMembers"
    /\ pending' = pending \ {r}
    /\ resError' = ""
    /\ members' = SortEntries(entries)
    /\ total' = tot
    /\ membersFrom' = r
    /\ appliedMax' = IF r.seq > appliedMax THEN r.seq ELSE appliedMax
    /\ loading' = FALSE
    /\ toast' = ""
    /\ UNCHANGED <<envVars, nextSeq, depVars, rolesVars, urlsVars, allUrls,
                   inviteVars, removeVars>>

\* fetchMembers after its await on a tagged error, lines 285-288.
RespGetMembersError(r, errorType) ==
    /\ r \in pending /\ r.api = "getOrganizationMembers"
    /\ pending' = pending \ {r}
    /\ resError' = errorType
    /\ toast' = "Could not get members of the organization"
    /\ loading' = FALSE
    /\ UNCHANGED <<envVars, nextSeq, listVars, depVars, rolesVars, urlsVars, allUrls,
                   inviteVars, removeVars>>

(* ------------------------ what the page renders ------------------------ *)

canManageMembers ==
    hasRole(ORGANIZATION_OWNER) \/ hasRole(ORGANIZATION_ADMIN)
    \/ hasRole(ORGANIZATION_MEMBERS_MANAGER)

canManageUrls ==
    hasRole(ORGANIZATION_URLS_MANAGER) \/ hasRole(ORGANIZATION_ADMIN)
    \/ hasRole(ORGANIZATION_OWNER)

\* A Menu or Dialog is open: Material UI renders each as a modal, so the
\* page behind it takes no clicks.
ModalOpen ==
    rolesAnchor # NULL_ID \/ urlsOpen \/ inviteOpen \/ removeAnchor # NULL_ID

\* The table and its pagination are rendered (line 459) and reachable.
TableShown == ~loading /\ ~ModalOpen

Rows == {members[i] : i \in 1..Len(members)}

\* Row rendering, lines 494-503.
isSelf(m) == m.email = currentEmail
\* A page that takes no row for an owner's.
isOwnerNever(m) == FALSE
isOwner(m) == ORGANIZATION_OWNER \in m.roles
\* isDisabled without the test for the acting user's own row.
isDisabledOwnerOnly(m) == isOwner(m)
isDisabled(m) == isSelf(m) \/ isOwner(m)
canOpenRolesMenu(m) == canManageMembers /\ ~isDisabled(m)
canEditUrls(m) == canManageUrls /\ ~isDisabled(m)

(* ------------------------- sorting and paging -------------------------- *)

\* The effect of line 291 after a render that changed a dependency.
RefetchOnDeps ==
    /\ loading' = TRUE
    /\ pending' = pending \cup {FetchRequest(nextSeq, Deps')}
    /\ nextSeq' = nextSeq + 1

handleSort(property) ==
    /\ TableShown
    /\ CanIssue("getOrganizationMembers")
    /\ LET isAsc == orderBy = property /\ orderDir = "asc"
       IN  orderDir' = IF isAsc THEN "desc" ELSE "asc"
    /\ orderBy' = property
    /\ page' = 0
    /\ UNCHANGED perPage
    /\ RefetchOnDeps
    /\ Quiet
    /\ UNCHANGED <<envVars, listVars, rolesVars, urlsVars,
                   allUrls, inviteVars, removeVars>>

\* TablePagination's back and next buttons, line 584.
onPageChange(p) ==
    /\ TableShown
    /\ CanIssue("getOrganizationMembers")
    /\ \/ p = page - 1 /\ page > 0
       \/ p = page + 1 /\ p * perPage < total
    /\ page' = p
    /\ UNCHANGED <<perPage, orderBy, orderDir>>
    /\ RefetchOnDeps
    /\ Quiet
    /\ UNCHANGED <<envVars, listVars, rolesVars, urlsVars,
                   allUrls, inviteVars, removeVars>>

\* Lines 585-588.
onRowsPerPageChange(n) ==
    /\ TableShown
    /\ CanIssue("getOrganizationMembers")
    /\ n \in RowsPerPageOptions /\ n # perPage
    /\ perPage' = n
    /\ page' = 0
    /\ UNCHANGED <<orderBy, orderDir>>
    /\ RefetchOnDeps
    /\ Quiet
    /\ UNCHANGED <<envVars, listVars, rolesVars, urlsVars,
                   allUrls, inviteVars, removeVars>>

(* ----------------------------- roles menu ------------------------------ *)

\* Lines 302-309.
handleRolesClick(member) ==
    /\ ~(~canManageMembers \/ isSelf(member) \/ isOwner(member))
    /\ rolesRow' = member
    /\ newRoles' = member.roles \ {ORGANIZATION_OWNER}
    /\ rolesAnchor' = member.id

\* The roles cell of a row, lines 525-527.
RolesCellClick(m) ==
    /\ TableShown
    /\ m \in Rows
    /\ canOpenRolesMenu(m)
    /\ handleRolesClick(m)
    /\ Quiet
    /\ UNCHANGED <<envVars, pending, nextSeq, listVars, depVars,
                   loading, urlsVars, allUrls, inviteVars, removeVars>>

\* A close that forgets the row and leaves the menu anchored.
handleRolesCloseRowOnly ==
    /\ rolesAnchor' = rolesAnchor
    /\ rolesRow' = NoMember

\* Lines 310-313; the Menu's onClose (backdrop, Escape).
handleRolesClose ==
    /\ rolesAnchor' = NULL_ID
    /\ rolesRow' = NoMember

RolesMenuClose ==
    /\ rolesAnchor # NULL_ID
    /\ handleRolesClose
    /\ Quiet
    /\ UNCHANGED <<envVars, pending, nextSeq, listVars, depVars,
                   loading, newRoles, urlsVars, allUrls, inviteVars, removeVars>>

\* Checkboxes that are never disabled.
canToggleAny(role) == TRUE

\* The checkbox of a role in the roles menu, lines 601-612.
canToggle(role) ==
    hasRole(ORGANIZATION_OWNER) \/ hasRole(ORGANIZATION_ADMIN) \/ hasRole(role)

\* Lines 314-318.
handleRoleToggle(role) ==
    /\ rolesAnchor # NULL_ID
    /\ role \in ToggleRoles
    /\ canToggle(role)
    /\ newRoles' = IF role \in newRoles THEN newRoles \ {role} ELSE newRoles \cup {role}
    /\ Quiet
    /\ UNCHANGED <<envVars, pending, nextSeq, listVars, depVars,
                   loading, rolesAnchor, rolesRow, urlsVars, allUrls, inviteVars,
                   removeVars>>

\* The payload without the Member default.
RolesPayloadAsSelected(selected) == [newRoles |-> selected]

\* The payload of lines 321-323.
RolesPayload(selected) ==
    [newRoles |-> IF Cardinality(selected) > 0 THEN selected ELSE {ORGANIZATION_MEMBER}]

\* handleRolesUpdate up to its await, lines 319-328.
handleRolesUpdate ==
    /\ rolesRow # NoMember
    /\ CanIssue("updateMemberRoles")
    /\ pending' = pending \cup
         {Request(nextSeq, "updateMemberRoles", rolesRow, RolesPayload(newRoles), Deps)}
    /\ nextSeq' = nextSeq + 1
    /\ Quiet
    /\ UNCHANGED <<envVars, listVars, depVars, loading, rolesVars,
                   urlsVars, allUrls, inviteVars, removeVars>>

\* An Update Roles button that is never disabled.
UpdateRolesClickAlways ==
    /\ rolesAnchor # NULL_ID
    /\ handleRolesUpdate

\* The Update Roles button of the open menu, lines 619-625.
UpdateRolesClick ==
    /\ rolesAnchor # NULL_ID
    /\ ~(Cardinality(newRoles) = 0)
    /\ handleRolesUpdate

\* handleRolesUpdate after its await, lines 329-335.
RespUpdateMemberRoles(r, outcome) ==
    /\ r \in pending /\ r.api = "updateMemberRoles"
    /\ resError' = outcome
    /\ IF outcome # ""
       THEN /\ toast' = "Could not update member roles"
            /\ pending' = pending \ {r}
            /\ UNCHANGED <<nextSeq, loading, rolesAnchor, rolesRow>>
       ELSE /\ toast' = "Successfully updated member roles"
            /\ handleRolesClose
            /\ loading' = TRUE
            /\ pending' = (pending \ {r}) \cup {FetchRequest(nextSeq, r.deps)}
            /\ nextSeq' = nextSeq + 1
    /\ UNCHANGED <<envVars, listVars, depVars, newRoles, urlsVars, allUrls,
                   inviteVars, removeVars>>

(* ----------------------------- remove menu ----------------------------- *)

\* The row's action button (lines 561-571) and handleRemoveClick, 429-432.
handleRemoveClick(m) ==
    /\ TableShown
    /\ m \in Rows
    /\ canManageMembers
    /\ ~isDisabled(m)
    /\ removeRow' = m
    /\ removeAnchor' = m.id
    /\ Quiet
    /\ UNCHANGED <<envVars, pending, nextSeq, listVars, depVars,
                   loading, rolesVars, urlsVars, allUrls, inviteVars>>

\* The remove Menu's onClose, line 753.
RemoveMenuClose ==
    /\ removeAnchor # NULL_ID
    /\ removeAnchor' = NULL_ID
    /\ Quiet
    /\ UNCHANGED <<envVars, pending, nextSeq, listVars, depVars,
                   loading, rolesVars, urlsVars, allUrls, inviteVars, removeRow>>

\* The Remove Member item (line 755) and handleRemove up to its await,
\* lines 433-438.
handleRemove ==
    /\ removeAnchor # NULL_ID
    /\ removeRow # NoMember
    /\ CanIssue("deleteMember")
    /\ pending' = pending \cup {Request(nextSeq, "deleteMember", removeRow, NoBody, Deps)}
    /\ nextSeq' = nextSeq + 1
    /\ Quiet
    /\ UNCHANGED <<envVars, listVars, depVars, loading, rolesVars,
                   urlsVars, allUrls, inviteVars, removeVars>>

\* The fetchMembers call of line 446, marked with its call site.
RemovalFetch(seq, deps) ==
    Request(seq, "getOrganizationMembers", NoMember, <<"handleRemove">>, deps)

\* The requests a successful removal issues: fetchMembers of the closure
\* handleRemove ran in (line 446), and, when setPage(0) changed page, the
\* effect of line 291 with the new render's values.
RemoveFetches(r) ==
    {RemovalFetch(nextSeq, r.deps)} \cup
    (IF page # 0
     THEN {FetchRequest(nextSeq + 1, [Deps EXCEPT !.p = 0])}
     ELSE {})

\* handleRemove after its await, lines 439-446.
RespDeleteMember(r, outcome) ==
    /\ r \in pending /\ r.api = "deleteMember"
    /\ resError' = outcome
    /\ IF outcome # ""
       THEN /\ toast' = "Could not remove member"
            /\ pending' = pending \ {r}
            /\ UNCHANGED <<nextSeq, loading, removeAnchor, page>>
       ELSE /\ toast' = "Member was successfully removed"
            /\ removeAnchor' = NULL_ID
            /\ page' = 0
            /\ loading' = TRUE
            /\ pending' = (pending \ {r}) \cup RemoveFetches(r)
            /\ nextSeq' = nextSeq + Cardinality(RemoveFetches(r))
    /\ UNCHANGED <<envVars, listVars, perPage, orderBy, orderDir, rolesVars,
                   urlsVars, allUrls, inviteVars, removeRow>>

(* --------------------------- URL-access dialog ------------------------- *)

\* An openUrlsDialog that leaves the dialog closed while it fetches.
openUrlsDialogFetchFirst(member) ==
    /\ TableShown
    /\ member \in Rows
    /\ canEditUrls(member)
    /\ ~(~canManageUrls \/ isSelf(member) \/ isOwner(member))
    /\ CanIssue("getShortUrls")
    /\ urlsMember' = member
    /\ pending' = pending \cup {Request(nextSeq, "getShortUrls", member, "openUrlsDialog", Deps)}
    /\ nextSeq' = nextSeq + 1
    /\ Quiet
    /\ UNCHANGED <<envVars, listVars, depVars, loading, rolesVars, urlsOpen, urlsLoading, urlsInitFrom,
                   allowedAll, selectedUrls, allUrls, inviteVars, removeVars>>

\* openUrlsDialog up to its await, lines 338-347, behind the row's link
\* (lines 546-554).
openUrlsDialog(member) ==
    /\ TableShown
    /\ member \in Rows
    /\ canEditUrls(member)
    /\ ~(~canManageUrls \/ isSelf(member) \/ isOwner(member))
    /\ CanIssue("getShortUrls")
    /\ urlsOpen' = TRUE
    /\ urlsLoading' = TRUE
    /\ urlsMember' = member
    /\ pending' = pending \cup {Request(nextSeq, "getShortUrls", member, "openUrlsDialog", Deps)}
    /\ nextSeq' = nextSeq + 1
    /\ Quiet
    /\ UNCHANGED <<envVars, listVars, depVars, loading, rolesVars,
                   allowedAll, selectedUrls, urlsInitFrom, allUrls, inviteVars, removeVars>>

\* openUrlsDialog after its await, lines 348-357.
RespShortUrlsForDialog(r, outcome, urls) ==
    /\ r \in pending /\ r.api = "getShortUrls" /\ r.body = "openUrlsDialog"
    /\ pending' = pending \ {r}
    /\ resError' = outcome
    /\ LET entries == IF outcome = "" THEN urls ELSE {}
       IN  /\ allUrls' = IF outcome = "" THEN entries ELSE allUrls
           /\ allowedAll' = r.member.allowedAllUrls
           /\ selectedUrls' =
                IF r.member.allowedAllUrls THEN {}
                ELSE {u \in entries : u \in r.member.allowedUrls}
    /\ urlsLoading' = FALSE
    /\ urlsInitFrom' = r.member.id
    /\ toast' = ""
    /\ UNCHANGED <<envVars, nextSeq, listVars, depVars, loading, rolesVars,
                   urlsOpen, urlsMember, inviteVars, removeVars>>

\* The Allow All URLs checkbox of the dialog, line 634.
setAllowedAll(c) ==
    /\ urlsOpen
    /\ c = ~allowedAll
    /\ allowedAll' = c
    /\ Quiet
    /\ UNCHANGED <<envVars, pending, nextSeq, listVars, depVars,
                   loading, rolesVars, urlsOpen, urlsMember, selectedUrls, urlsLoading, urlsInitFrom,
                   allUrls, inviteVars, removeVars>>

\* The dialog's Autocomplete (lines 638-654): an option added to the
\* value, or one of its chips removed.
setSelectedUrls(v) ==
    /\ urlsOpen
    /\ ~allowedAll /\ ~urlsLoading
    /\ \/ \E u \in allUrls \ selectedUrls : v = selectedUrls \cup {u}
       \/ \E u \in selectedUrls : v = selectedUrls \ {u}
    /\ selectedUrls' = v
    /\ Quiet
    /\ UNCHANGED <<envVars, pending, nextSeq, listVars, depVars,
                   loading, rolesVars, urlsOpen, urlsMember, allowedAll, urlsLoading, urlsInitFrom,
                   allUrls, inviteVars, removeVars>>

\* The dialog's onClose and its Cancel button, lines 629 and 658.
UrlsDialogClose ==
    /\ urlsOpen
    /\ urlsOpen' = FALSE
    /\ Quiet
    /\ UNCHANGED <<envVars, pending, nextSeq, listVars, depVars,
                   loading, rolesVars, urlsMember, allowedAll, selectedUrls,
                   urlsLoading, urlsInitFrom, allUrls, inviteVars, removeVars>>

\* The dto of lines 362-365.
UrlsDto(all, selected) ==
    [allowedAllUrls |-> all, newUrlsIds |-> IF all THEN {} ELSE selected]

\* handleUrlsSave up to its await, lines 360-370.
handleUrlsSave ==
    /\ urlsMember # NoMember
    /\ CanIssue("updateMemberUrls")
    /\ pending' = pending \cup
         {Request(nextSeq, "updateMemberUrls", urlsMember,
                  UrlsDto(allowedAll, selectedUrls), Deps)}
    /\ nextSeq' = nextSeq + 1
    /\ Quiet
    /\ UNCHANGED <<envVars, listVars, depVars, loading, rolesVars,
                   urlsVars, allUrls, inviteVars, removeVars>>

\* The dialog's Save button, line 659.
UrlsSaveClick ==
    /\ urlsOpen
    /\ handleUrlsSave

\* handleUrlsSave after its await, lines 371-377.
RespUpdateMemberUrls(r, outcome) ==
    /\ r \in pending /\ r.api = "updateMemberUrls"
    /\ resError' = outcome
    /\ IF outcome # ""
       THEN /\ toast' = "Could not update allowed URLs of member"
            /\ pending' = pending \ {r}
            /\ UNCHANGED <<nextSeq, loading, urlsOpen>>
       ELSE /\ toast' = "Successfully updated member allowed URLs"
            /\ urlsOpen' = FALSE
            /\ loading' = TRUE
            /\ pending' = (pending \ {r}) \cup {FetchRequest(nextSeq, r.deps)}
            /\ nextSeq' = nextSeq + 1
    /\ UNCHANGED <<envVars, listVars, depVars, rolesVars, urlsMember, allowedAll,
                   selectedUrls, urlsLoading, urlsInitFrom, allUrls, inviteVars, removeVars>>

(* -------------------------- AuthenticatedLayout ------------------------ *)

\* useState<... | null>(null) of lines 30 and 31.
NO_ORG == "null"
NO_ORGS == "null"

LayoutRequest(seq, api) ==
    Request(seq, api, NoMember, NoBody, [p |-> 0, q |-> 0, sb |-> "", dir |-> ""])

\* The first function of the mount effect after its await, lines 41-47.
RespGetOrganizationBySlug(r, outcome) ==
    /\ r \in pending /\ r.api = "getOrganizationBySlug"
    /\ pending' = pending \ {r}
    /\ resError' = outcome
    /\ IF outcome # ""
       THEN /\ toast' = "Could not get current organization info"
            /\ UNCHANGED currentOrg
       ELSE /\ toast' = ""
            /\ currentOrg' = "organization"
    /\ UNCHANGED <<myRoles, budget, organizations, nextSeq, listVars, depVars,
                   loading, rolesVars, urlsVars, allUrls, inviteVars, removeVars>>

\* The second function of the mount effect after its await, lines 53-58.
RespGetUserOrganizations(r, outcome) ==
    /\ r \in pending /\ r.api = "getUserOrganizations"
    /\ pending' = pending \ {r}
    /\ resError' = outcome
    /\ IF outcome # ""
       THEN /\ toast' = "Could not get participating organizations' info"
            /\ UNCHANGED organizations
       ELSE /\ toast' = ""
            /\ organizations' = "entries"
    /\ UNCHANGED <<myRoles, budget, currentOrg, nextSeq, listVars, depVars,
                   loading, rolesVars, urlsVars, allUrls, inviteVars, removeVars>>

(* ----------------------------- invite dialog --------------------------- *)

\* Values typed into the name fields.
NameSamples == {"", "Ann"}

\* Values typed into the email field, as character sequences: empty, no
\* top-level domain, well-formed.
EmailSamples ==
    {<<>>, <<"a", "@", "b">>, <<"a", "@", "b", ".", "c", "o">>}

\* The labels of a domain, split at the dots.
RECURSIVE Labels(_)
Labels(s) ==
    IF \A i \in 1..Len(s) : s[i] # "."
    THEN <<s>>
    ELSE LET k == CHOOSE i \in 1..Len(s) :
                    s[i] = "." /\ \A j \in 1..(i - 1) : s[j] # "."
         IN  <<SubSeq(s, 1, k - 1)>> \o Labels(SubSeq(s, k + 1, Len(s)))

\* z.string().email() on the sampled alphabet: one "@", a local part that
\* neither starts nor ends with a dot, no two dots in a row, a domain of
\* non-empty labels ending in a label of two characters or more.
IsEmail(s) ==
    /\ Cardinality({i \in 1..Len(s) : s[i] = "@"}) = 1
    /\ LET at == CHOOSE i \in 1..Len(s) : s[i] = "@"
           local == SubSeq(s, 1, at - 1)
           domain == SubSeq(s, at + 1, Len(s))
           labels == Labels(domain)
       IN  /\ Len(local) > 0
           /\ local[1] # "." /\ local[Len(local)] # "."
           /\ \A i \in 1..(Len(s) - 1) : ~(s[i] = "." /\ s[i + 1] = ".")
           /\ Len(labels) >= 2
           /\ \A i \in 1..Len(labels) : Len(labels[i]) > 0
           /\ Len(labels[Len(labels)]) >= 2

\* The roles inviteSchema admits, lines 205-210.
InviteRoleEnum == ToggleRoles \cup {ORGANIZATION_MEMBER}

\* inviteSchema whose email field is a plain z.string().
InviteIssuesAnyEmail(data) ==
    (IF data.firstname = "" THEN {<<"firstname", "String must contain at least 1 character(s)">>} ELSE {})
    \cup (IF data.lastname = "" THEN {<<"lastname", "String must contain at least 1 character(s)">>} ELSE {})
    \cup (IF ~(data.allowedAllUrls \/ Cardinality(data.allowedUrls) > 0)
          THEN {<<"allowedUrls", "Select at least one URL or Allow All URLs">>}
          ELSE {})

\* inviteSchema.safeParse (lines 198-219): the issues, each as the pair
\* <<path[0], message>>.  The refinement runs unless the object itself
\* failed to parse (a value of the wrong type).
InviteIssues(data) ==
    LET typed == data.roles \subseteq InviteRoleEnum
    IN  (IF data.firstname = "" THEN {<<"firstname", "String must contain at least 1 character(s)">>} ELSE {})
        \cup (IF data.lastname = "" THEN {<<"lastname", "String must contain at least 1 character(s)">>} ELSE {})
        \cup (IF ~IsEmail(data.email) THEN {<<"email", "Invalid email">>} ELSE {})
        \cup (IF ~typed THEN {<<"roles", "Invalid enum value">>} ELSE {})
        \cup (IF typed /\ ~(data.allowedAllUrls \/ Cardinality(data.allowedUrls) > 0)
              THEN {<<"allowedUrls", "Select at least one URL or Allow All URLs">>}
              ELSE {})

\* The initial form, lines 245-252 and 418-425.
EmptyInvite ==
    [firstname |-> "", lastname |-> "", email |-> <<>>, allowedAllUrls |-> TRUE,
     allowedUrls |-> {}, roles |-> {}]

\* The Invite Member button (lines 451-457) and handleInviteOpen up to its
\* await, lines 380-382.
handleInviteOpen ==
    /\ canManageMembers
    /\ ~ModalOpen
    /\ CanIssue("getShortUrls")
    /\ inviteOpen' = TRUE
    /\ pending' = pending \cup {Request(nextSeq, "getShortUrls", NoMember, "handleInviteOpen", Deps)}
    /\ nextSeq' = nextSeq + 1
    /\ Quiet
    /\ UNCHANGED <<envVars, listVars, depVars, loading, rolesVars,
                   urlsVars, allUrls, inviteData, inviteErrors, removeVars>>

\* handleInviteOpen after its await, line 383.
RespShortUrlsForInvite(r, outcome, urls) ==
    /\ r \in pending /\ r.api = "getShortUrls" /\ r.body = "handleInviteOpen"
    /\ pending' = pending \ {r}
    /\ resError' = outcome
    /\ allUrls' = IF outcome = "" THEN urls ELSE allUrls
    /\ toast' = ""
    /\ UNCHANGED <<envVars, nextSeq, listVars, depVars, loading, rolesVars,
                   urlsVars, inviteVars, removeVars>>

\* Line 385; the dialog's onClose and its Cancel button.
handleInviteClose ==
    /\ inviteOpen
    /\ inviteOpen' = FALSE
    /\ Quiet
    /\ UNCHANGED <<envVars, pending, nextSeq, listVars, depVars,
                   loading, rolesVars, urlsVars, allUrls, inviteData, inviteErrors,
                   removeVars>>

\* Lines 386-388.
handleInviteChange(field, value) ==
    /\ inviteData' = [inviteData EXCEPT ![field] = value]
    /\ Quiet
    /\ UNCHANGED <<envVars, pending, nextSeq, listVars, depVars,
                   loading, rolesVars, urlsVars, allUrls, inviteOpen, inviteErrors,
                   removeVars>>

\* The text fields of the dialog, lines 666-689.
InviteType ==
    /\ inviteOpen
    /\ \/ \E v \in NameSamples \ {inviteData.firstname} : handleInviteChange("firstname", v)
       \/ \E v \in NameSamples \ {inviteData.lastname} : handleInviteChange("lastname", v)
       \/ \E v \in EmailSamples \ {inviteData.email} : handleInviteChange("email", v)

\* The Allow All URLs checkbox of the dialog, lines 690-698.
InviteAllowAllToggle ==
    /\ inviteOpen
    /\ handleInviteChange("allowedAllUrls", ~inviteData.allowedAllUrls)

\* The dialog's Autocomplete, lines 699-713: its value is the options whose
\* id the form holds; a change adds an option or removes a chip.
InviteUrlsChange ==
    /\ inviteOpen
    /\ ~inviteData.allowedAllUrls
    /\ LET value == {u \in allUrls : u \in inviteData.allowedUrls}
       IN  \/ \E u \in allUrls \ value : handleInviteChange("allowedUrls", value \cup {u})
           \/ \E u \in value : handleInviteChange("allowedUrls", value \ {u})

\* The role checkboxes of the dialog, lines 714-738.
InviteRoleToggle(role) ==
    /\ inviteOpen
    /\ role \in ToggleRoles
    /\ handleInviteChange("roles",
         IF role \notin inviteData.roles
         THEN inviteData.roles \cup {role}
         ELSE inviteData.roles \ {role})

\* The dto of lines 399-403.
InviteDto(data) ==
    [data EXCEPT !.roles =
        IF Cardinality(data.roles) > 0 THEN data.roles ELSE {ORGANIZATION_MEMBER}]

\* handleInviteSubmit up to its await, lines 389-404.
handleInviteSubmit ==
    IF InviteIssues(inviteData) # {}
    THEN /\ inviteErrors' = InviteIssues(inviteData)
         /\ Quiet
         /\ UNCHANGED <<envVars, pending, nextSeq, listVars, depVars,
                        loading, rolesVars, urlsVars, allUrls, inviteOpen, inviteData,
                        removeVars>>
    ELSE /\ CanIssue("inviteMember")
         /\ pending' = pending \cup
              {Request(nextSeq, "inviteMember", NoMember, InviteDto(inviteData), Deps)}
         /\ nextSeq' = nextSeq + 1
         /\ Quiet
         /\ UNCHANGED <<envVars, listVars, depVars, loading,
                        rolesVars, urlsVars, allUrls, inviteVars, removeVars>>

\* The Send Invite button, lines 742-747.
SendInviteClick ==
    /\ inviteOpen
    /\ ~(~inviteData.allowedAllUrls /\ Cardinality(inviteData.allowedUrls) = 0)
    /\ handleInviteSubmit

\* A continuation with one message for every error.
RespInviteMemberOneMessage(r, outcome) ==
    /\ r \in pending /\ r.api = "inviteMember"
    /\ resError' = outcome
    /\ IF outcome # ""
       THEN /\ toast' = "Could not invite new member"
            /\ pending' = pending \ {r}
            /\ UNCHANGED <<nextSeq, loading, inviteVars>>
       ELSE /\ toast' = "Successfully invited new member"
            /\ inviteOpen' = FALSE
            /\ loading' = TRUE
            /\ pending' = (pending \ {r}) \cup {FetchRequest(nextSeq, r.deps)}
            /\ nextSeq' = nextSeq + 1
            /\ inviteData' = EmptyInvite
            /\ inviteErrors' = {}
    /\ UNCHANGED <<envVars, listVars, depVars, rolesVars, urlsVars, allUrls,
                   removeVars>>

\* handleInviteSubmit after its await, lines 407-426.
RespInviteMember(r, outcome) ==
    /\ r \in pending /\ r.api = "inviteMember"
    /\ resError' = outcome
    /\ IF outcome # ""
       THEN /\ toast' = IF outcome = ENTITY_ALREADY_EXISTS
                        THEN "Member with this email already exists"
                        ELSE "Could not invite new member"
            /\ pending' = pending \ {r}
            /\ UNCHANGED <<nextSeq, loading, inviteVars>>
       ELSE /\ toast' = "Successfully invited new member"
            /\ inviteOpen' = FALSE
            /\ loading' = TRUE
            /\ pending' = (pending \ {r}) \cup {FetchRequest(nextSeq, r.deps)}
            /\ nextSeq' = nextSeq + 1
            /\ inviteData' = EmptyInvite
            /\ inviteErrors' = {}
    /\ UNCHANGED <<envVars, listVars, depVars, rolesVars, urlsVars, allUrls,
                   removeVars>>

(* ---------------------------- specification ---------------------------- *)

\* OrganizationMembersPage after its first render and mount effect: the
\* useState initial values of lines 225-256, and the fetchMembers of
\* line 292 in flight.
InitPage ==
    /\ toast = ""
    /\ resError = NO_RESPONSE
    /\ membersFrom = NoRequest
    /\ appliedMax = 0
    /\ members = <<>> /\ page = 0 /\ perPage = 10 /\ total = 0
    /\ orderBy = "name" /\ orderDir = "asc"
    /\ loading = TRUE
    /\ rolesAnchor = NULL_ID /\ rolesRow = NoMember /\ newRoles = {}
    /\ urlsOpen = FALSE /\ urlsMember = NoMember /\ allowedAll = FALSE
    /\ selectedUrls = {} /\ allUrls = {} /\ urlsLoading = FALSE
    /\ urlsInitFrom = NULL_ID
    /\ inviteOpen = FALSE /\ inviteData = EmptyInvite /\ inviteErrors = {}
    /\ removeAnchor = NULL_ID /\ removeRow = NoMember

\* The request of the page's mount effect.
MountFetch == FetchRequest(1, [p |-> 0, q |-> 10, sb |-> "name", dir |-> "asc"])

\* AuthenticatedLayout's useState initial values, lines 29-31.
InitLayoutState == currentOrg = NO_ORG /\ organizations = NO_ORGS

\* The page mounted under a layout whose own requests are left aside.
InitWith(b, permissions) ==
    /\ myRoles \in permissions
    /\ InitPage
    /\ InitLayoutState
    /\ budget = b
    /\ nextSeq = 2
    /\ pending = {MountFetch}

\* The layout and the page mounted: the page's effect runs first (a child's
\* effects run before its parent's), then the two requests of lines 35-60.
Init ==
    /\ myRoles \in PermissionSets
    /\ InitPage
    /\ InitLayoutState
    /\ budget = MaxReq
    /\ nextSeq = 4
    /\ pending = {MountFetch, LayoutRequest(2, "getOrganizationBySlug"),
                  LayoutRequest(3, "getUserOrganizations")}

Next ==
    \/ \E r \in pending, e \in EntryLists, t \in Totals : RespGetMembers(r, e, t)
    \/ \E r \in pending : RespGetMembersError(r, INTERNAL_ERROR)
    \/ \E property \in {"name", "email"} : handleSort(property)
    \/ \E p \in {page - 1, page + 1} : onPageChange(p)
    \/ \E n \in RowsPerPageOptions : onRowsPerPageChange(n)
    \/ \E m \in Rows : RolesCellClick(m)
    \/ RolesMenuClose
    \/ \E role \in ToggleRoles : handleRoleToggle(role)
    \/ UpdateRolesClick
    \/ \E r \in pending, o \in {"", INTERNAL_ERROR} : RespUpdateMemberRoles(r, o)
    \/ \E m \in Rows : openUrlsDialog(m)
    \/ \E r \in pending, u \in SUBSET UrlIds : RespShortUrlsForDialog(r, "", u)
    \/ \E r \in pending : RespShortUrlsForDialog(r, INTERNAL_ERROR, {})
    \/ \E c \in BOOLEAN : setAllowedAll(c)
    \/ \E v \in SUBSET UrlIds : setSelectedUrls(v)
    \/ UrlsDialogClose
    \/ UrlsSaveClick
    \/ \E r \in pending, o \in {"", INTERNAL_ERROR} : RespUpdateMemberUrls(r, o)
    \/ handleInviteOpen
    \/ \E r \in pending, u \in SUBSET UrlIds : RespShortUrlsForInvite(r, "", u)
    \/ \E r \in pending : RespShortUrlsForInvite(r, INTERNAL_ERROR, {})
    \/ handleInviteClose
    \/ InviteType
    \/ InviteAllowAllToggle
    \/ InviteUrlsChange
    \/ \E role \in ToggleRoles : InviteRoleToggle(role)
    \/ SendInviteClick
    \/ \E r \in pending, o \in Outcomes : RespInviteMember(r, o)
    \/ \E m \in Rows : handleRemoveClick(m)
    \/ RemoveMenuClose
    \/ handleRemove
    \/ \E r \in pending, o \in {"", INTERNAL_ERROR} : RespDeleteMember(r, o)
    \/ \E r \in pending, o \in {"", INTERNAL_ERROR} : RespGetOrganizationBySlug(r, o)
    \/ \E r \in pending, o \in {"", INTERNAL_ERROR} : RespGetUserOrganizations(r, o)

Spec == Init /\ [][Next]_vars

\* The user works with the table only: sorting, paging, removing.
NextList ==
    \/ \E r \in pending, e \in EntryLists, t \in Totals : RespGetMembers(r, e, t)
    \/ \E r \in pending : RespGetMembersError(r, INTERNAL_ERROR)
    \/ \E property \in {"name", "email"} : handleSort(property)
    \/ \E p \in {page - 1, page + 1} : onPageChange(p)
    \/ \E n \in RowsPerPageOptions : onRowsPerPageChange(n)
    \/ \E m \in Rows : handleRemoveClick(m)
    \/ RemoveMenuClose
    \/ handleRemove
    \/ \E r \in pending, o \in {"", INTERNAL_ERROR} : RespDeleteMember(r, o)

SpecList == InitWith(MaxReq, PermissionSets) /\ [][NextList]_vars

\* The user works with the rows only: roles menu, URL dialog, remove menu.
NextRows ==
    \/ \E r \in pending, e \in EntryLists, t \in Totals : RespGetMembers(r, e, t)
    \/ \E r \in pending : RespGetMembersError(r, INTERNAL_ERROR)
    \/ \E m \in Rows : RolesCellClick(m)
    \/ RolesMenuClose
    \/ \E role \in ToggleRoles : handleRoleToggle(role)
    \/ UpdateRolesClick
    \/ \E r \in pending, o \in {"", INTERNAL_ERROR} : RespUpdateMemberRoles(r, o)
    \/ \E m \in Rows : openUrlsDialog(m)
    \/ \E r \in pending, u \in SUBSET UrlIds : RespShortUrlsForDialog(r, "", u)
    \/ \E r \in pending : RespShortUrlsForDialog(r, INTERNAL_ERROR, {})
    \/ \E c \in BOOLEAN : setAllowedAll(c)
    \/ \E v \in SUBSET UrlIds : setSelectedUrls(v)
    \/ UrlsDialogClose
    \/ UrlsSaveClick
    \/ \E r \in pending, o \in {"", INTERNAL_ERROR} : RespUpdateMemberUrls(r, o)
    \/ \E m \in Rows : handleRemoveClick(m)
    \/ RemoveMenuClose
    \/ handleRemove
    \/ \E r \in pending, o \in {"", INTERNAL_ERROR} : RespDeleteMember(r, o)

SpecRows == InitWith(MaxReqRows, PermissionSets) /\ [][NextRows]_vars

\* The user works with the two edit surfaces of a row only: roles menu and
\* URL dialog.
NextEdit ==
    \/ \E r \in pending, e \in EntryLists, t \in Totals : RespGetMembers(r, e, t)
    \/ \E r \in pending : RespGetMembersError(r, INTERNAL_ERROR)
    \/ \E m \in Rows : RolesCellClick(m)
    \/ RolesMenuClose
    \/ \E role \in ToggleRoles : handleRoleToggle(role)
    \/ UpdateRolesClick
    \/ \E r \in pending, o \in {"", INTERNAL_ERROR} : RespUpdateMemberRoles(r, o)
    \/ \E m \in Rows : openUrlsDialog(m)
    \/ \E r \in pending, u \in SUBSET UrlIds : RespShortUrlsForDialog(r, "", u)
    \/ \E r \in pending : RespShortUrlsForDialog(r, INTERNAL_ERROR, {})
    \/ \E c \in BOOLEAN : setAllowedAll(c)
    \/ \E v \in SUBSET UrlIds : setSelectedUrls(v)
    \/ UrlsDialogClose
    \/ UrlsSaveClick
    \/ \E r \in pending, o \in {"", INTERNAL_ERROR} : RespUpdateMemberUrls(r, o)

SpecEdit == InitWith(MaxReqRows, PermissionSets) /\ [][NextEdit]_vars

\* Member-list responses of at most one entry.
ShortLists == {e \in EntryLists : Len(e) <= 1}

\* The user works with the URL dialog only.
NextUrls ==
    \/ \E r \in pending, e \in EntryLists, t \in Totals : RespGetMembers(r, e, t)
    \/ \E r \in pending : RespGetMembersError(r, INTERNAL_ERROR)
    \/ \E m \in Rows : openUrlsDialog(m)
    \/ \E r \in pending, u \in SUBSET UrlIds : RespShortUrlsForDialog(r, "", u)
    \/ \E r \in pending : RespShortUrlsForDialog(r, INTERNAL_ERROR, {})
    \/ \E c \in BOOLEAN : setAllowedAll(c)
    \/ \E v \in SUBSET UrlIds : setSelectedUrls(v)
    \/ UrlsDialogClose
    \/ UrlsSaveClick
    \/ \E r \in pending, o \in {"", INTERNAL_ERROR} : RespUpdateMemberUrls(r, o)

SpecUrls == InitWith(MaxReqUrls, PermissionSets) /\ [][NextUrls]_vars

\* The user works with the invite dialog only, and leaves its role
\* checkboxes alone.
NextInvite ==
    \/ \E r \in pending, e \in ShortLists, t \in Totals : RespGetMembers(r, e, t)
    \/ \E r \in pending : RespGetMembersError(r, INTERNAL_ERROR)
    \/ handleInviteOpen
    \/ \E r \in pending, u \in SUBSET UrlIds : RespShortUrlsForInvite(r, "", u)
    \/ \E r \in pending : RespShortUrlsForInvite(r, INTERNAL_ERROR, {})
    \/ handleInviteClose
    \/ InviteType
    \/ InviteAllowAllToggle
    \/ InviteUrlsChange
    \/ SendInviteClick
    \/ \E r \in pending, o \in Outcomes : RespInviteMember(r, o)

SpecInvite ==
    InitWith(MaxReqInvite, {{ORGANIZATION_MEMBER}, {ORGANIZATION_MEMBERS_MANAGER}})
    /\ [][NextInvite]_vars

\* The forms the invite dialog can hold.
InviteForms ==
    [firstname : NameSamples, lastname : NameSamples, email : EmailSamples,
     allowedAllUrls : BOOLEAN, allowedUrls : SUBSET UrlIds, roles : SUBSET ToggleRoles]

\* The selections the roles menu of member m can hold: its roles without
\* Owner, with any of the checkboxes the acting user may toggle flipped.
RoleSelections(m) ==
    {((m.roles \ {ORGANIZATION_OWNER}) \ flipped) \cup (flipped \ m.roles) :
        flipped \in SUBSET {role \in ToggleRoles : canToggle(role)}}

\* The page at rest on its first list, with the roles menu of a row or the
\* invite dialog open on any selection or form the user can have made.
InitForms ==
    /\ myRoles \in PermissionSets
    /\ canManageMembers
    /\ InitLayoutState
    /\ budget = MaxReqForms
    /\ nextSeq = 2
    /\ pending = {}
    /\ toast = "" /\ resError = NO_RESPONSE
    /\ membersFrom = MountFetch /\ appliedMax = 1
    /\ page = 0 /\ perPage = 10 /\ total \in Totals
    /\ orderBy = "name" /\ orderDir = "asc"
    /\ loading = FALSE
    /\ urlsOpen = FALSE /\ urlsMember = NoMember /\ allowedAll = FALSE
    /\ selectedUrls = {} /\ urlsLoading = FALSE /\ urlsInitFrom = NULL_ID
    /\ removeAnchor = NULL_ID /\ removeRow = NoMember
    /\ inviteErrors = {}
    /\ \/ /\ rolesRow \in {m \in MemberUniverse : canOpenRolesMenu(m)}
          /\ members = <<rolesRow>>
          /\ rolesAnchor = rolesRow.id
          /\ newRoles \in RoleSelections(rolesRow)
          /\ inviteOpen = FALSE /\ inviteData = EmptyInvite /\ allUrls = {}
       \/ /\ rolesRow = NoMember /\ rolesAnchor = NULL_ID /\ newRoles = {}
          /\ members = <<>>
          /\ inviteOpen = TRUE /\ inviteData \in InviteForms /\ allUrls = UrlIds

\* The handlers behind the two submit buttons, called on whatever the form
\* holds, and the role checkboxes of the open form.
NextForms ==
    \/ handleRolesUpdate
    \/ \E role \in ToggleRoles : handleRoleToggle(role)
    \/ RolesMenuClose
    \/ \E r \in pending, o \in {"", INTERNAL_ERROR} : RespUpdateMemberRoles(r, o)
    \/ inviteOpen /\ handleInviteSubmit
    \/ \E role \in ToggleRoles : InviteRoleToggle(role)
    \/ \E r \in pending, o \in Outcomes : RespInviteMember(r, o)
    \/ \E r \in pending, e \in ShortLists, t \in Totals : RespGetMembers(r, e, t)
    \/ \E r \in pending : RespGetMembersError(r, INTERNAL_ERROR)

SpecForms == InitForms /\ [][NextForms]_vars

(* ------------------------------- claims -------------------------------- *)

\* A member the acting user may not act on: the user's own row, an owner.
Protected(m) == m.email = currentEmail \/ ORGANIZATION_OWNER \in m.roles

ProtectedIds == {m.id : m \in {x \in MemberUniverse : Protected(x)}}

TargetedApis == {"updateMemberRoles", "updateMemberUrls", "deleteMember"}

\* C1: no roles menu, URL-access dialog or remove menu is ever open for a
\* member who is the acting user or an owner, and no updateMemberRoles,
\* updateMemberUrls or deleteMember request is issued with that member's id,
\* whatever the acting user's permission set.
ProtectedRowsNeverActionable ==
    /\ rolesAnchor # NULL_ID => ~Protected(rolesRow) /\ rolesAnchor \notin ProtectedIds
    /\ urlsOpen => ~Protected(urlsMember)
    /\ removeAnchor # NULL_ID => ~Protected(removeRow) /\ removeAnchor \notin ProtectedIds
    /\ \A r \in pending :
          r.api \in TargetedApis => ~Protected(r.member) /\ r.member.id \notin ProtectedIds

\* C1's case: a deleteMember request for one row is out while the other row
\* on display is the acting user's own or an owner's.
ProtectedRowsShownWhileActing ==
    /\ \E m \in Rows : Protected(m)
    /\ \E r \in pending : r.api = "deleteMember" /\ r.member \in Rows

\* What the spec asks of an invite form before it is sent.
FormPasses(data) ==
    /\ data.firstname # ""
    /\ data.lastname # ""
    /\ IsEmail(data.email)
    /\ data.allowedAllUrls \/ data.allowedUrls # {}

FailingFields(data) ==
    (IF data.firstname = "" THEN {"firstname"} ELSE {})
    \cup (IF data.lastname = "" THEN {"lastname"} ELSE {})
    \cup (IF ~IsEmail(data.email) THEN {"email"} ELSE {})
    \cup (IF ~data.allowedAllUrls /\ data.allowedUrls = {} THEN {"allowedUrls"} ELSE {})

ErrorKeys(errors) == {e[1] : e \in errors}

\* C2: handleInviteSubmit issues inviteMember only for a form that passes
\* validation (names non-empty, email well-formed, allowedAllUrls true or
\* allowedUrls non-empty); on a form that fails, a call of the handler is
\* possible, and every step that records errors records exactly the failing
\* fields as keys and sends no request.
InviteSentOnlyWhenValid ==
    /\ [](inviteOpen /\ ~FormPasses(inviteData) =>
            ENABLED (handleInviteSubmit /\ pending' = pending
                     /\ ErrorKeys(inviteErrors') = FailingFields(inviteData)))
    /\ [][/\ \A r \in pending' \ pending :
                r.api = "inviteMember" =>
                    FormPasses(inviteData) /\ inviteErrors' = inviteErrors
          /\ inviteErrors' # inviteErrors /\ resError' = NO_RESPONSE =>
                /\ ~FormPasses(inviteData)
                /\ ErrorKeys(inviteErrors') = FailingFields(inviteData)
                /\ pending' = pending]_vars

\* C2's case: a form with an ill-formed email was submitted, the error is
\* recorded under "email" and nothing was sent.
InviteRejectedForEmail ==
    /\ inviteOpen
    /\ ~IsEmail(inviteData.email)
    /\ "email" \in ErrorKeys(inviteErrors)
    /\ pending = {}

\* C10: no updateMemberRoles or inviteMember request carries an empty role
\* set; a request issued from an empty selection carries exactly
\* {ORGANIZATION_MEMBER}, and one issued from a non-empty selection carries
\* that selection.
RolesNeverSentEmpty ==
    [][\A r \in pending' \ pending :
          /\ r.api = "updateMemberRoles" =>
                /\ r.body.newRoles # {}
                /\ newRoles = {} => r.body.newRoles = {ORGANIZATION_MEMBER}
                /\ newRoles # {} => r.body.newRoles = newRoles
          /\ r.api = "inviteMember" =>
                /\ r.body.roles # {}
                /\ inviteData.roles = {} => r.body.roles = {ORGANIZATION_MEMBER}
                /\ inviteData.roles # {} => r.body.roles = inviteData.roles]_vars

\* C10's case: the roles menu holds an empty selection and the request sent
\* from it carries the Member role.
EmptySelectionSentAsMember ==
    /\ newRoles = {}
    /\ \E r \in pending :
          r.api = "updateMemberRoles" /\ r.body.newRoles = {ORGANIZATION_MEMBER}

FetchesIn(requests) == {r \in requests : r.api = "getOrganizationMembers"}

\* C4: the list on display always has its owners before its non-owners,
\* whatever sort field and direction the response was requested with.
OwnersListedFirst ==
    \A i, j \in 1..Len(members) :
        i < j /\ ORGANIZATION_OWNER \in members[j].roles =>
            ORGANIZATION_OWNER \in members[i].roles

\* C4's case: a response requested by email, descending, was applied and
\* shows an owner above a non-owner.
OwnerAboveMemberByEmailDesc ==
    /\ Len(members) = 2
    /\ ORGANIZATION_OWNER \in members[1].roles
    /\ ORGANIZATION_OWNER \notin members[2].roles
    /\ membersFrom.deps.sb = "email" /\ membersFrom.deps.dir = "desc"
    /\ resError = ""

\* C7 as stated: no step issues more than one getOrganizationMembers
\* request.
OneFetchPerStep ==
    [][Cardinality(FetchesIn(pending' \ pending)) <= 1]_vars

\* C8: responses are applied in the order they arrive, with no check of the
\* order they were requested in: every successful getOrganizationMembers
\* response becomes the list on display, also when a request issued after
\* it has been answered already.
ResponsesAppliedAsTheyArrive ==
    [][\A r \in FetchesIn(pending) :
          r \notin pending' /\ resError' = "" =>
              membersFrom' = r /\ ~loading']_vars

\* C8's case: two requests were outstanding together, the later one was
\* answered first, and the page now rests on the response of the earlier
\* one, which was requested for other controls than the page shows.
ListFromOvertakenRequest ==
    /\ membersFrom.seq < appliedMax
    /\ membersFrom.deps # Deps
    /\ FetchesIn(pending) = {}
    /\ ~loading

DialogFetches(requests) ==
    {r \in requests : r.api = "getShortUrls" /\ r.body = "openUrlsDialog"}

\* C3 as stated: a request sent with allowedAllUrls true carries an empty
\* list of URL ids, from the URL dialog and from the invite dialog alike.
AllowAllCarriesNoUrls ==
    \A r \in pending :
        /\ r.api = "updateMemberUrls" /\ r.body.allowedAllUrls => r.body.newUrlsIds = {}
        /\ r.api = "inviteMember" /\ r.body.allowedAllUrls => r.body.allowedUrls = {}

\* C5: the step in which updateMemberRoles succeeds closes the roles menu
\* and issues a getOrganizationMembers request; the step in which
\* updateMemberUrls succeeds closes the URL dialog and issues one too.
SuccessClosesAndRefetches ==
    [][\A r \in pending :
          r \notin pending' /\ resError' = "" =>
              /\ r.api = "updateMemberRoles" =>
                    /\ rolesAnchor' = NULL_ID
                    /\ FetchesIn(pending' \ pending) # {}
                    /\ loading'
              /\ r.api = "updateMemberUrls" =>
                    /\ ~urlsOpen'
                    /\ FetchesIn(pending' \ pending) # {}
                    /\ loading']_vars

\* C5's case: updateMemberUrls has just succeeded, the dialog is closed and
\* the refetch is outstanding.
UrlsSavedAndRefetching ==
    /\ toast = "Successfully updated member allowed URLs"
    /\ resError = ""
    /\ ~urlsOpen
    /\ FetchesIn(pending) # {}

\* C6 as stated: every request answered with a tagged error puts an error
\* toast on the screen.
EveryErrorIsToasted ==
    [][\A r \in pending :
          r \notin pending' /\ resError' \in ErrorTypes => toast' # ""]_vars

RoleUpdates(requests) == {r \in requests : r.api = "updateMemberRoles"}

\* The roles in which a request differs from the record of its member.
RolesChanged(r) ==
    (r.body.newRoles \ r.member.roles) \cup (r.member.roles \ r.body.newRoles)

\* C11: while the roles menu is open on an empty selection the Update Roles
\* button cannot be clicked, and every updateMemberRoles request is issued
\* from a non-empty selection, which it carries.
NoUpdateFromEmptySelection ==
    /\ [](rolesAnchor # NULL_ID /\ newRoles = {} => ~ENABLED UpdateRolesClick)
    /\ [][\A r \in RoleUpdates(pending' \ pending) :
              newRoles # {} /\ r.body.newRoles = newRoles]_vars

\* C11's case: the menu is open, its last checkbox was cleared, and only
\* the disabled button keeps the request from being sent.
MenuOpenOnEmptySelection ==
    /\ rolesAnchor # NULL_ID
    /\ newRoles = {}
    /\ rolesRow.roles # {}
    /\ ENABLED handleRolesUpdate

\* C12: no updateMemberRoles request carries the Owner role or targets a
\* member who holds it, and a request differs from the record of its member
\* (the row the menu was opened on) only in the three manager roles of the
\* checkboxes.
OwnerNeitherGrantedNorRevoked ==
    \A r \in RoleUpdates(pending) :
        /\ ORGANIZATION_OWNER \notin r.body.newRoles
        /\ ORGANIZATION_OWNER \notin r.member.roles
        /\ RolesChanged(r) \subseteq ToggleRoles

\* C12's case: a request adds a manager role to a member and keeps the
\* role it had, which no checkbox shows.
ManagerRoleAddedToMember ==
    \E r \in RoleUpdates(pending) :
        /\ r.member.roles = {ORGANIZATION_MEMBER}
        /\ ORGANIZATION_MEMBER \in r.body.newRoles
        /\ r.body.newRoles \ r.member.roles # {}

IsAdminOrOwner == ORGANIZATION_OWNER \in myRoles \/ ORGANIZATION_ADMIN \in myRoles

\* C17: with the menu open, an Owner or Admin can toggle each of the three
\* manager roles and any other acting user only those they hold; a request
\* of a user who is neither differs from the record of its member only in
\* roles that user holds.
TogglesLimitedToOwnRoles ==
    /\ [](rolesAnchor # NULL_ID =>
            \A role \in ToggleRoles :
                ENABLED handleRoleToggle(role) <=> (IsAdminOrOwner \/ role \in myRoles))
    /\ [](\A r \in RoleUpdates(pending) :
            ~IsAdminOrOwner => RolesChanged(r) \subseteq myRoles)

\* C17's case: a user holding two manager roles and neither Owner nor Admin
\* has sent a request that changes a member's roles.
ManagerChangedOwnRole ==
    /\ ~IsAdminOrOwner
    /\ Cardinality(myRoles) = 2
    /\ \E r \in RoleUpdates(pending) : RolesChanged(r) # {}

\* C13: the step in which inviteMember is answered with a tagged error
\* shows "Member with this email already exists" exactly when the error is
\* ENTITY_ALREADY_EXISTS and "Could not invite new member" otherwise, and
\* leaves the dialog, the form and its errors as they were, issuing no
\* getOrganizationMembers request.
InviteErrorToastByType ==
    [][\A r \in pending :
          r.api = "inviteMember" /\ r \notin pending' /\ resError' \in ErrorTypes =>
              /\ toast' = "Member with this email already exists"
                    <=> resError' = ENTITY_ALREADY_EXISTS
              /\ resError' # ENTITY_ALREADY_EXISTS => toast' = "Could not invite new member"
              /\ inviteOpen' = inviteOpen
              /\ inviteData' = inviteData
              /\ inviteErrors' = inviteErrors
              /\ FetchesIn(pending' \ pending) = {}
              /\ loading' = loading]_vars

\* C13's case: an invite was refused as a duplicate; the dialog is still
\* open on the form that was sent.
DuplicateInviteRefused ==
    /\ resError = ENTITY_ALREADY_EXISTS
    /\ toast = "Member with this email already exists"
    /\ inviteOpen
    /\ FormPasses(inviteData)
    /\ pending = {}

UrlUpdates(requests) == {r \in requests : r.api = "updateMemberUrls"}

\* C14 as stated: an updateMemberUrls request for a member is issued only
\* when allowedAll and selectedUrls were last initialised from that
\* member's record.
SavedValuesBelongToMember ==
    [][\A r \in UrlUpdates(pending' \ pending) : urlsInitFrom = r.member.id]_vars

\* C14's failure: a request for one member carries the flag and the
\* selection that were initialised from another member's record.
ValuesOfOtherMemberSent ==
    \E r \in pending :
        /\ r.api = "updateMemberUrls"
        /\ urlsInitFrom \notin {NULL_ID, r.member.id}
        /\ r.member.allowedAllUrls
        /\ ~r.body.allowedAllUrls /\ r.body.newUrlsIds # {}

\* C15 as stated: when the last outstanding request has been answered and
\* the list just put on display is the answer to the fetch of a successful
\* removal, page is 0 and that fetch was made with p = 0 and the perPage,
\* orderBy and orderDir the page now has.
RemovalEndsOnFirstPage ==
    pending = {} /\ resError = "" /\ membersFrom.body = <<"handleRemove">> =>
        page = 0 /\ membersFrom.deps = Deps

\* C16 as stated: loading is true whenever a getOrganizationMembers request
\* is outstanding.
LoadingWhileFetching ==
    FetchesIn(pending) # {} => loading

====
